---- MODULE Spec2Model ----
(***************************************************************************)
(* Model of package status, file status/status_history.go:                 *)
(*   StatusHistoryFilter.Validate, History.push and History.SquashLogs.    *)
(* A client calls one of the three operations at a time.  SquashLogs is    *)
(* modelled statement by statement: its locals are the variables buffer,   *)
(* result, now, repeat, i and repeatStatus, and pc is its position.        *)
(* Go indexes slices from 0, TLA+ sequences from 1: i keeps Go's value,    *)
(* so statuses[i] of the source is statuses[i + 1] here.                   *)
(***************************************************************************)
EXTENDS Integers, Sequences, FiniteSets, TLC

VARIABLES
    op,            \* the operation being called: "none", "SquashLogs", "push",
                   \* "Validate", "Valid", "AllHistoryKind"
    pc,            \* "idle", "loop", "flush", "ready", "done", "panic"
    statuses,      \* SquashLogs: *h, the caller's history
    cycleSize,     \* SquashLogs: the argument
    buffer,        \* SquashLogs: local buffer (a History of its own)
    result,        \* SquashLogs: local result
    now,           \* SquashLogs: local now, the value of time.Now()
    repeat,        \* SquashLogs: local repeat
    i,             \* SquashLogs: local i (0-based, as in the source)
    repeatStatus,  \* SquashLogs: local repeatStatus
    ret,           \* SquashLogs: the returned History
    f,             \* Validate: the receiver *f
    err,           \* Validate: the returned error
    window,        \* push: the receiver *h
    new,           \* push: the argument
    old,           \* push: the returned DetailedStatus
    kind,          \* Valid: the receiver k
    valid,         \* Valid: the returned bool
    allKinds       \* AllHistoryKind: the returned map

vars == <<op, pc, statuses, cycleSize, buffer, result, now, repeat, i,
          repeatStatus, ret, f, err, window, new, old, kind, valid, allKinds>>

squashVars == <<statuses, cycleSize, buffer, result, now, repeat, i, repeatStatus, ret>>
validateVars == <<f, err>>
pushVars == <<window, new, old>>
kindVars == <<kind, valid, allKinds>>

----------------------------------------------------------------------------
(* Bounds of the exploration.                                              *)

\* longest history handed to SquashLogs (besides the 8-record scenario)
MaxLen == 6
\* largest cycleSize handed to SquashLogs; the smallest is -1
MaxCycle == 3
\* the endless walk of cycleSize = 0 is followed until repeat = MaxRepeat
MaxRepeat == 3
\* longest window handed to push
MaxWindow == 3
\* largest Size of a filter; the smallest is -1
MaxSize == 2

----------------------------------------------------------------------------
(* Data: DetailedStatus, pointers to times, the status values.             *)

\* status.Idle, the Status of the synthetic record
Idle == "idle"
\* another Status value, to tell records apart
Error == "error"

\* a nil *time.Time / *time.Duration
NilPtr == [ref |-> "nil", time |-> 0]
\* &now: the address of the local now of the running call, holding t
AddrOfNow(t) == [ref |-> "now", time |-> t]
\* the *time.Time of a record made by the caller: one object per record
AddrOfSince(p) == [ref |-> "h", time |-> p]

\* the zero DetailedStatus
ZeroStatus ==
    [Status |-> "", Info |-> "", Data |-> {}, Since |-> NilPtr,
     Kind |-> "", Version |-> "", Life |-> "", Err |-> "nil"]

\* DetailedStatus{Status: s, Info: info, Since: since}
StatusLiteral(s, info, since) ==
    [ZeroStatus EXCEPT !.Status = s, !.Info = info, !.Since = since]

----------------------------------------------------------------------------
(* History.push (lines 72-83).                                             *)

\* push as its comment words it: new becomes element 0, the others move up
\* by one, the last element is returned
pushAtFront(h, n) ==
    [old |-> h[Len(h)],
     h   |-> [j \in 1..Len(h) |-> IF j = 1 THEN n ELSE h[j - 1]]]

\* push without the loop of lines 78-80: new overwrites the last slot
pushNoShift(h, n) ==
    [old |-> h[1],
     h   |-> [j \in 1..Len(h) |-> IF j < Len(h) THEN h[j] ELSE n]]

\* push returning the last element of the window in place of the first
pushReturnsLast(h, n) ==
    [old |-> h[Len(h)],
     h   |-> [j \in 1..Len(h) |-> IF j < Len(h) THEN h[j + 1] ELSE n]]

\* push on a non-empty window h: old is the value returned, h the window
\* after the call.  The loop of lines 78-80 copies ch[i+1] into ch[i] for
\* i = 0 .. len-2, line 81 writes new into the last slot.
push(h, n) ==
    [old |-> h[1],
     h   |-> [j \in 1..Len(h) |-> IF j < Len(h) THEN h[j + 1] ELSE n]]

----------------------------------------------------------------------------
(* fmt.Sprintf("last %d statuses repeated %d times", cycleSize, repeat).   *)

Digit(d) ==
    CASE d = 0 -> "0" [] d = 1 -> "1" [] d = 2 -> "2" [] d = 3 -> "3"
      [] d = 4 -> "4" [] d = 5 -> "5" [] d = 6 -> "6" [] d = 7 -> "7"
      [] d = 8 -> "8" [] d = 9 -> "9"

RECURSIVE Itoa(_)
\* the verb %d: decimal digits, a leading "-" for a negative number
Itoa(n) ==
    IF n < 0 THEN "-" \o Itoa(0 - n)
    ELSE IF n < 10 THEN Digit(n)
    ELSE Itoa(n \div 10) \o Digit(n % 10)

\* Sprintf with its two arguments exchanged
SprintfSwapped(k, n) ==
    "last " \o Itoa(n) \o " statuses repeated " \o Itoa(k) \o " times"

Sprintf(k, n) ==
    "last " \o Itoa(k) \o " statuses repeated " \o Itoa(n) \o " times"

----------------------------------------------------------------------------
(* History.SquashLogs (lines 85-150), as operators on the frame of a call: *)
(* a record of the receiver, the argument, the locals, the position and    *)
(* the returned value.                                                     *)

\* the frame on entry of h.SquashLogs(k)
EntryFrame(h, k) ==
    [statuses |-> h, cycleSize |-> k, buffer |-> <<>>, result |-> <<>>,
     now |-> 0, repeat |-> 0, i |-> 0, repeatStatus |-> ZeroStatus,
     pc |-> "entry", ret |-> <<>>]

\* IsShort with < for <=
IsShortStrict(fr) == Len(fr.statuses) < fr.cycleSize

\* line 89: if len(statuses) <= cycleSize
IsShort(fr) == Len(fr.statuses) <= fr.cycleSize

\* line 90: return statuses
ShortCircuit(fr) == [fr EXCEPT !.ret = fr.statuses, !.pc = "done"]

\* Seed whose loop runs while i <= cycleSize: one record more in the buffer
SeedOneMore(fr, t) ==
    [fr EXCEPT !.buffer = SubSeq(fr.statuses, 1, fr.cycleSize + 1),
               !.result = <<>>,
               !.now = t,
               !.repeat = 0,
               !.repeatStatus = StatusLiteral(Idle, "", AddrOfNow(t)),
               !.i = fr.cycleSize,
               !.pc = "loop"]

\* Seed that appends to the result the frame already holds
SeedKeepsResult(fr, t) ==
    [fr EXCEPT !.buffer = SubSeq(fr.statuses, 1, fr.cycleSize),
               !.now = t,
               !.repeat = 0,
               !.repeatStatus = StatusLiteral(Idle, "", AddrOfNow(t)),
               !.i = fr.cycleSize,
               !.pc = "loop"]

\* lines 92-105 and the initialisation i = cycleSize of line 107; t is the
\* value of time.Now().  The loop of lines 93-95 appends statuses[0..k-1] to
\* a fresh History (nothing when k <= 0).
Seed(fr, t) ==
    [fr EXCEPT !.buffer = SubSeq(fr.statuses, 1, fr.cycleSize),
               !.result = <<>>,
               !.now = t,
               !.repeat = 0,
               !.repeatStatus = StatusLiteral(Idle, "", AddrOfNow(t)),
               !.i = fr.cycleSize,
               !.pc = "loop"]

\* lines 107-110: the loop goes on while i < len(statuses), and breaks when
\* fewer than cycleSize records remain
Walking(fr) ==
    /\ fr.i < Len(fr.statuses)
    /\ ~(fr.i + fr.cycleSize > Len(fr.statuses))

\* line 111: statuses[i : i+cycleSize] panics unless 0 <= i <= i+cycleSize
\* (i+cycleSize <= len(statuses) holds after line 108)
SliceInRange(fr) == 0 <= fr.i /\ fr.i <= fr.i + fr.cycleSize

\* line 111: subset := statuses[i : i+cycleSize]
Subset(fr) == SubSeq(fr.statuses, fr.i + 1, fr.i + fr.cycleSize)

\* Matches comparing Status alone
MatchesStatusOnly(subset, buf) ==
    \A j \in 1..Len(subset) : ~(subset[j].Status # buf[j].Status)

\* Matches comparing Since as well
MatchesWithSince(subset, buf) ==
    \A j \in 1..Len(subset) :
        ~(\/ subset[j].Status # buf[j].Status
          \/ subset[j].Info # buf[j].Info
          \/ subset[j].Since # buf[j].Since)

\* lines 112-117: repetition stays true iff no position differs in Status
\* or Info
Matches(subset, buf) ==
    \A j \in 1..Len(subset) :
        ~(subset[j].Status # buf[j].Status \/ subset[j].Info # buf[j].Info)

\* Repetition that keeps the chunk just read in the buffer, in place of the
\* first occurrence
RepetitionKeepsLatest(fr) ==
    [fr EXCEPT !.repeat = @ + 1, !.i = @ + fr.cycleSize,
               !.buffer = Subset(fr)]

\* Repetition that counts every matching chunk twice
RepetitionCountsTwice(fr) ==
    [fr EXCEPT !.repeat = @ + 2, !.i = @ + fr.cycleSize]

\* Repetition that counts the repeat and leaves the walk index where it is
RepetitionStay(fr) ==
    [fr EXCEPT !.repeat = @ + 1]

\* lines 118-122
Repetition(fr) ==
    [fr EXCEPT !.repeat = @ + 1, !.i = @ + fr.cycleSize]

RECURSIVE PushEachEmitsNew(_, _, _)
\* PushEach appending the record pushed in place of the record evicted
PushEachEmitsNew(buf, res, subset) ==
    IF subset = <<>> THEN [buffer |-> buf, result |-> res]
    ELSE LET p == push(buf, Head(subset))
         IN  PushEachEmitsNew(p.h, Append(res, Head(subset)), Tail(subset))

RECURSIVE PushEach(_, _, _)
\* lines 127-129: for each record of subset, result = append(result,
\* buffer.push(record))
PushEach(buf, res, subset) ==
    IF subset = <<>> THEN [buffer |-> buf, result |-> res]
    ELSE LET p == push(buf, Head(subset))
         IN  PushEach(p.h, Append(res, p.old), Tail(subset))

\* FlushRepeat appending the synthetic record before the evicted records
FlushRepeatMarkerFirst(fr) ==
    LET rstatus == Sprintf(fr.cycleSize, fr.repeat)
        marker  == [fr.repeatStatus EXCEPT !.Info = rstatus]
        pushed  == PushEach(fr.buffer, Append(fr.result, marker), Subset(fr))
    IN  [fr EXCEPT !.repeat = 0,
                   !.repeatStatus = marker,
                   !.buffer = pushed.buffer,
                   !.result = pushed.result,
                   !.i = @ + fr.cycleSize]

\* FlushRepeat without line 125: the repeat counter is not reset
FlushRepeatNoReset(fr) ==
    LET rstatus == Sprintf(fr.cycleSize, fr.repeat)
        marker  == [fr.repeatStatus EXCEPT !.Info = rstatus]
        pushed  == PushEach(fr.buffer, fr.result, Subset(fr))
    IN  [fr EXCEPT !.repeatStatus = marker,
                   !.buffer = pushed.buffer,
                   !.result = Append(pushed.result, marker),
                   !.i = @ + fr.cycleSize]

\* lines 123-133
FlushRepeat(fr) ==
    LET rstatus == Sprintf(fr.cycleSize, fr.repeat)
        marker  == [fr.repeatStatus EXCEPT !.Info = rstatus]
        pushed  == PushEach(fr.buffer, fr.result, Subset(fr))
    IN  [fr EXCEPT !.repeat = 0,
                   !.repeatStatus = marker,
                   !.buffer = pushed.buffer,
                   !.result = Append(pushed.result, marker),
                   !.i = @ + fr.cycleSize]

\* PushOne with buffer := statuses[:cycleSize] in place of the copy of
\* lines 92-95: buffer shares the array of the caller's history, and what
\* push writes into buffer shows in statuses[0 .. cycleSize-1]
PushOneShared(fr) ==
    LET p == push(fr.buffer, fr.statuses[fr.i + 1])
    IN  [fr EXCEPT !.buffer = p.h,
                   !.statuses = p.h \o SubSeq(fr.statuses, fr.cycleSize + 1,
                                                Len(fr.statuses)),
                   !.result = Append(fr.result, p.old),
                   !.i = @ + 1]

\* PushOne that pushes every record of the chunk and advances by cycleSize
PushOneChunk(fr) ==
    LET p == PushEach(fr.buffer, fr.result, Subset(fr))
    IN  [fr EXCEPT !.buffer = p.buffer,
                   !.result = p.result,
                   !.i = @ + fr.cycleSize]

\* lines 134-135
PushOne(fr) ==
    LET p == push(fr.buffer, fr.statuses[fr.i + 1])
    IN  [fr EXCEPT !.buffer = p.h,
                   !.result = Append(fr.result, p.old),
                   !.i = @ + 1]

\* Final without lines 140-144: the pending repetitions are not reported
FinalNoMarker(fr) ==
    LET n       == Len(fr.statuses)
        flushed == fr.result \o SubSeq(fr.buffer, 1, fr.cycleSize)
        all     == IF fr.i < n - 1
                   THEN flushed \o SubSeq(fr.statuses, fr.i + 2, n)
                   ELSE flushed
    IN  [fr EXCEPT !.result = all, !.ret = all, !.pc = "done"]

\* Final appending the synthetic record before the records of the buffer
FinalMarkerFirst(fr) ==
    LET n       == Len(fr.statuses)
        marker  == [fr.repeatStatus EXCEPT
                        !.Info = Sprintf(fr.cycleSize, fr.repeat)]
        marked  == IF fr.repeat > 0 THEN Append(fr.result, marker)
                   ELSE fr.result
        flushed == marked \o SubSeq(fr.buffer, 1, fr.cycleSize)
        all     == IF fr.i < n - 1
                   THEN flushed \o SubSeq(fr.statuses, fr.i + 2, n)
                   ELSE flushed
    IN  [fr EXCEPT !.repeatStatus = IF fr.repeat > 0 THEN marker ELSE @,
                   !.result = all,
                   !.ret = all,
                   !.pc = "done"]

\* Final without the test of line 140: the synthetic record is appended
\* whatever the repeat counter
FinalAlwaysMarker(fr) ==
    LET n       == Len(fr.statuses)
        flushed == fr.result \o SubSeq(fr.buffer, 1, fr.cycleSize)
        marker  == [fr.repeatStatus EXCEPT
                        !.Info = Sprintf(fr.cycleSize, fr.repeat)]
        marked  == Append(flushed, marker)
        all     == IF fr.i < n - 1
                   THEN marked \o SubSeq(fr.statuses, fr.i + 2, n)
                   ELSE marked
    IN  [fr EXCEPT !.repeatStatus = marker,
                   !.result = all,
                   !.ret = all,
                   !.pc = "done"]

\* lines 137-149, after the loop has ended
Final(fr) ==
    LET n       == Len(fr.statuses)
        flushed == fr.result \o SubSeq(fr.buffer, 1, fr.cycleSize)
        marker  == [fr.repeatStatus EXCEPT
                        !.Info = Sprintf(fr.cycleSize, fr.repeat)]
        marked  == IF fr.repeat > 0 THEN Append(flushed, marker) ELSE flushed
        all     == IF fr.i < n - 1
                   THEN marked \o SubSeq(fr.statuses, fr.i + 2, n)
                   ELSE marked
    IN  [fr EXCEPT !.repeatStatus = IF fr.repeat > 0 THEN marker ELSE @,
                   !.result = all,
                   !.ret = all,
                   !.pc = "done"]

\* a run-time panic of line 111 ends the call without a returned value
Panic(fr) == [fr EXCEPT !.pc = "panic"]

\* which statement of the loop runs next in frame fr (fr.pc = "loop")
StepKind(fr) ==
    IF ~Walking(fr) THEN "final"
    ELSE IF ~SliceInRange(fr) THEN "panic"
    ELSE IF Matches(Subset(fr), fr.buffer) THEN "repetition"
    ELSE IF fr.repeat > 0 THEN "flush"
    ELSE "push"

\* the frame after that statement
Step(fr) ==
    CASE StepKind(fr) = "final"      -> Final(fr)
      [] StepKind(fr) = "panic"      -> Panic(fr)
      [] StepKind(fr) = "repetition" -> Repetition(fr)
      [] StepKind(fr) = "flush"      -> FlushRepeat(fr)
      [] StepKind(fr) = "push"       -> PushOne(fr)

RECURSIVE RunFrom(_)
\* the frame in which the call that stands at fr ends: it has returned or
\* panicked (the endless walk of cycleSize = 0 is left at repeat = MaxRepeat)
RunFrom(fr) ==
    IF fr.pc # "loop" THEN fr
    ELSE IF fr.cycleSize = 0 /\ fr.repeat >= MaxRepeat THEN fr
    ELSE RunFrom(Step(fr))

\* the whole call h.SquashLogs(k), time.Now() returning t
SquashLogs(h, k, t) ==
    IF IsShort(EntryFrame(h, k)) THEN ShortCircuit(EntryFrame(h, k))
    ELSE RunFrom(Seed(EntryFrame(h, k), t))

----------------------------------------------------------------------------
(* StatusHistoryFilter.Validate (lines 27-44).                             *)

\* errors.NotValidf(msg)
NotValidf(msg) == [notValid |-> TRUE, msg |-> msg]
\* the nil error
NilError == [notValid |-> FALSE, msg |-> ""]

\* SizeSet with != for >
SizeSetNonZero(flt) == flt.Size # 0

\* line 29: s := f.Size > 0
SizeSet(flt) == flt.Size > 0
\* DateSet reading Delta for FromDate
DateSetFromDelta(flt) == flt.Delta # NilPtr

\* line 30: t := f.FromDate != nil
DateSet(flt) == flt.FromDate # NilPtr
\* line 31: d := f.Delta != nil
DeltaSet(flt) == flt.Delta # NilPtr

\* Validate with the case of Date and Delta ahead of the cases of Size
ValidateDateDeltaFirst(flt) ==
    LET s == SizeSet(flt)
        t == DateSet(flt)
        d == DeltaSet(flt)
    IN  IF ~(s \/ t \/ d) THEN NotValidf("missing filter parameters")
        ELSE IF t /\ d THEN NotValidf("Date and Delta together")
        ELSE IF s /\ t THEN NotValidf("Size and Date together")
        ELSE IF s /\ d THEN NotValidf("Size and Delta together")
        ELSE NilError

\* lines 33-43: the first case of the switch that holds decides
Validate(flt) ==
    LET s == SizeSet(flt)
        t == DateSet(flt)
        d == DeltaSet(flt)
    IN  IF ~(s \/ t \/ d) THEN NotValidf("missing filter parameters")
        ELSE IF s /\ t THEN NotValidf("Size and Date together")
        ELSE IF s /\ d THEN NotValidf("Size and Delta together")
        ELSE IF t /\ d THEN NotValidf("Date and Delta together")
        ELSE NilError

----------------------------------------------------------------------------
(* HistoryKind (lines 152-206).                                            *)

KindUnit == "unit"
KindUnitAgent == "juju-unit"
KindWorkload == "workload"
KindMachineInstance == "machine"
KindMachine == "juju-machine"
KindContainerInstance == "container"
KindContainer == "juju-container"

\* Valid without KindContainer in its case list
ValidNoContainer(k) ==
    k \in {KindUnit, KindUnitAgent, KindWorkload, KindMachineInstance,
           KindMachine, KindContainerInstance}

\* lines 185-193: the switch returns true on the listed constants
Valid(k) ==
    IF k \in {KindUnit, KindUnitAgent, KindWorkload, KindMachineInstance,
              KindMachine, KindContainerInstance, KindContainer}
    THEN TRUE
    ELSE FALSE

\* AllHistoryKind without the entry of KindContainer
AllHistoryKindNoContainer ==
    (KindUnit :> "statuses for specified unit and its workload")
    @@ (KindUnitAgent :> "statuses from the agent that is managing a unit")
    @@ (KindWorkload :> "statuses for unit's workload")
    @@ (KindMachineInstance
            :> "statuses that occur due to provisioning of a machine")
    @@ (KindMachine :> "status of the agent that is managing a machine")
    @@ (KindContainerInstance
            :> "statuses from the agent that is managing containers")

\* lines 196-206: the map literal
AllHistoryKind ==
    (KindUnit :> "statuses for specified unit and its workload")
    @@ (KindUnitAgent :> "statuses from the agent that is managing a unit")
    @@ (KindWorkload :> "statuses for unit's workload")
    @@ (KindMachineInstance
            :> "statuses that occur due to provisioning of a machine")
    @@ (KindMachine :> "status of the agent that is managing a machine")
    @@ (KindContainerInstance
            :> "statuses from the agent that is managing containers")
    @@ (KindContainer
            :> "statuses from the containers only and not their host machines")

----------------------------------------------------------------------------
(* The values the client passes.                                           *)

Statuses == {Idle, Error}
\* the second Info is one a synthetic record can carry as well
Infos == {"", "last 1 statuses repeated 1 times"}
\* what SquashLogs compares of a record, its Status and its Info: three
\* pairs, of which two differ in Info alone, two in Status alone, two in both
Keys == (Statuses \X Infos) \ {<<Error, "last 1 statuses repeated 1 times">>}

\* the p-th record of a history of the caller: a record of a unit with its
\* own Since object, so that no two records of a history are equal
InputStatus(key, p) ==
    [Status |-> key[1], Info |-> key[2], Data |-> {<<"hook", "update-status">>},
     Since |-> AddrOfSince(p), Kind |-> "unit", Version |-> "",
     Life |-> "alive", Err |-> "nil"]

HistoryOf(keys) == [p \in 1..Len(keys) |-> InputStatus(keys[p], p)]

\* every history of at most MaxLen records
ShortHistories ==
    UNION {{HistoryOf(ks) : ks \in [1..n -> Keys]} : n \in 0..MaxLen}

\* the histories of 8 records in which records 3-4 equal records 1-2 on
\* Status and Info and neither of the two later chunks of 2 equals the
\* chunk before it
ScenarioHistories ==
    {HistoryOf(<<ab[1], ab[2], ab[1], ab[2], cd[1], cd[2], eg[1], eg[2]>>) :
        <<ab, cd, eg>> \in
            {t \in (Keys \X Keys) \X (Keys \X Keys) \X (Keys \X Keys) :
                t[2] # t[1] /\ t[3] # t[2]}}

Histories == ShortHistories \cup ScenarioHistories

CycleSizes == (0 - 1)..MaxCycle

\* what time.Now() may return: the time of a record of the history, or later
NowValues == {2, 100}

\* the records of the windows handed to push
WindowRecords == {InputStatus(<<Idle, "">>, p) : p \in 1..(MaxWindow + 1)}

Windows == UNION {[1..n -> WindowRecords] : n \in 0..MaxWindow}

Filters ==
    [Size : (0 - 1)..MaxSize,
     FromDate : {NilPtr, [ref |-> "date", time |-> 1]},
     Delta : {NilPtr, [ref |-> "delta", time |-> 1]},
     Exclude : {{}, {"idle"}}]

\* the strings Valid is asked about: the seven kinds, the empty string and
\* strings that are no kind
KindInputs ==
    {KindUnit, KindUnitAgent, KindWorkload, KindMachineInstance, KindMachine,
     KindContainerInstance, KindContainer,
     "", "bogus", "Unit", "juju", "juju-workload", "machine-instance"}

ZeroFilter == [Size |-> 0, FromDate |-> NilPtr, Delta |-> NilPtr, Exclude |-> {}]

----------------------------------------------------------------------------
(* The state machine.                                                      *)

\* the frame of SquashLogs held in the variables
Frame ==
    [statuses |-> statuses, cycleSize |-> cycleSize, buffer |-> buffer,
     result |-> result, now |-> now, repeat |-> repeat, i |-> i,
     repeatStatus |-> repeatStatus, pc |-> pc, ret |-> ret]

\* the variables take the values of frame fr
Apply(fr) ==
    /\ statuses' = fr.statuses
    /\ cycleSize' = fr.cycleSize
    /\ buffer' = fr.buffer
    /\ result' = fr.result
    /\ now' = fr.now
    /\ repeat' = fr.repeat
    /\ i' = fr.i
    /\ repeatStatus' = fr.repeatStatus
    /\ pc' = fr.pc
    /\ ret' = fr.ret

Init ==
    /\ op = "none"
    /\ pc = "idle"
    /\ statuses = <<>>
    /\ cycleSize = 0
    /\ buffer = <<>>
    /\ result = <<>>
    /\ now = 0
    /\ repeat = 0
    /\ i = 0
    /\ repeatStatus = ZeroStatus
    /\ ret = <<>>
    /\ f = ZeroFilter
    /\ err = NilError
    /\ window = <<>>
    /\ new = ZeroStatus
    /\ old = ZeroStatus
    /\ kind = ""
    /\ valid = FALSE
    /\ allKinds = <<>>

\* h.SquashLogs(cycleSize) with len(h) <= cycleSize: lines 87-91
SquashLogsShort ==
    /\ pc = "idle"
    /\ \E h \in Histories, k \in CycleSizes :
          /\ IsShort(EntryFrame(h, k))
          /\ Apply(ShortCircuit(EntryFrame(h, k)))
    /\ op' = "SquashLogs"
    /\ UNCHANGED <<kindVars, validateVars, pushVars>>

\* h.SquashLogs(cycleSize) with len(h) > cycleSize: lines 87-107, up to the
\* first test of the loop
SquashLogsSeed ==
    /\ pc = "idle"
    /\ \E h \in Histories, k \in CycleSizes, t \in NowValues :
          /\ ~IsShort(EntryFrame(h, k))
          /\ Apply(Seed(EntryFrame(h, k), t))
    /\ op' = "SquashLogs"
    /\ UNCHANGED <<kindVars, validateVars, pushVars>>

\* lines 111-122: the chunk at i repeats the buffer
SquashLogsRepetition ==
    /\ op = "SquashLogs" /\ pc = "loop"
    /\ StepKind(Frame) = "repetition"
    /\ cycleSize # 0 \/ repeat < MaxRepeat
    /\ Apply(Repetition(Frame))
    /\ UNCHANGED <<op, kindVars, validateVars, pushVars>>

\* lines 111-117, 123-133: the chunk at i differs and repetitions are pending
SquashLogsFlushRepeat ==
    /\ op = "SquashLogs" /\ pc = "loop"
    /\ StepKind(Frame) = "flush"
    /\ Apply(FlushRepeat(Frame))
    /\ UNCHANGED <<op, kindVars, validateVars, pushVars>>

\* lines 111-117, 134-135: the chunk at i differs and nothing is pending
SquashLogsPushOne ==
    /\ op = "SquashLogs" /\ pc = "loop"
    /\ StepKind(Frame) = "push"
    /\ Apply(PushOne(Frame))
    /\ UNCHANGED <<op, kindVars, validateVars, pushVars>>

\* line 111: the slice expression panics
SquashLogsPanic ==
    /\ op = "SquashLogs" /\ pc = "loop"
    /\ StepKind(Frame) = "panic"
    /\ Apply(Panic(Frame))
    /\ UNCHANGED <<op, kindVars, validateVars, pushVars>>

\* lines 107-110, 137-149: the loop ends and the call returns
SquashLogsFinal ==
    /\ op = "SquashLogs" /\ pc = "loop"
    /\ StepKind(Frame) = "final"
    /\ Apply(Final(Frame))
    /\ UNCHANGED <<op, kindVars, validateVars, pushVars>>

\* f.Validate()
CallValidate ==
    /\ pc = "idle"
    /\ \E flt \in Filters :
          /\ f' = flt
          /\ err' = Validate(flt)
    /\ op' = "Validate"
    /\ pc' = "done"
    /\ UNCHANGED <<kindVars, squashVars, pushVars>>

\* the client makes a window of its own
NewWindow ==
    /\ pc = "idle"
    /\ \E w \in Windows : window' = w
    /\ op' = "push"
    /\ pc' = "ready"
    /\ UNCHANGED <<kindVars, squashVars, validateVars, new, old>>

\* window.push(r) on a non-empty window
Push ==
    /\ op = "push" /\ pc = "ready"
    /\ Len(window) > 0
    /\ \E r \in WindowRecords :
          /\ new' = r
          /\ window' = push(window, r).h
          /\ old' = push(window, r).old
    /\ UNCHANGED <<op, pc, kindVars, squashVars, validateVars>>

\* window.push(r) on an empty window that returns the zero record and leaves
\* the new record as the only one of the window
PushOnEmptyAppends ==
    /\ op = "push" /\ pc = "ready"
    /\ Len(window) = 0
    /\ \E r \in WindowRecords :
          /\ new' = r
          /\ window' = <<r>>
    /\ old' = ZeroStatus
    /\ UNCHANGED <<op, pc, kindVars, squashVars, validateVars>>

\* window.push(r) on an empty window: ch[0] of line 77 is out of range
PushPanic ==
    /\ op = "push" /\ pc = "ready"
    /\ Len(window) = 0
    /\ \E r \in WindowRecords : new' = r
    /\ pc' = "panic"
    /\ UNCHANGED <<op, window, old, kindVars, squashVars, validateVars>>

\* k.Valid()
CallValid ==
    /\ pc = "idle"
    /\ \E k \in KindInputs :
          /\ kind' = k
          /\ valid' = Valid(k)
    /\ op' = "Valid"
    /\ pc' = "done"
    /\ UNCHANGED <<allKinds, squashVars, validateVars, pushVars>>

\* AllHistoryKind()
CallAllHistoryKind ==
    /\ pc = "idle"
    /\ allKinds' = AllHistoryKind
    /\ op' = "AllHistoryKind"
    /\ pc' = "done"
    /\ UNCHANGED <<kind, valid, squashVars, validateVars, pushVars>>

\* the client drops what the call left and is free to call again
Return ==
    /\ pc \in {"done", "panic", "ready"}
    /\ op' = "none"
    /\ pc' = "idle"
    /\ statuses' = <<>>
    /\ cycleSize' = 0
    /\ buffer' = <<>>
    /\ result' = <<>>
    /\ now' = 0
    /\ repeat' = 0
    /\ i' = 0
    /\ repeatStatus' = ZeroStatus
    /\ ret' = <<>>
    /\ f' = ZeroFilter
    /\ err' = NilError
    /\ window' = <<>>
    /\ new' = ZeroStatus
    /\ old' = ZeroStatus
    /\ kind' = ""
    /\ valid' = FALSE
    /\ allKinds' = <<>>

Next ==
    \/ SquashLogsShort
    \/ SquashLogsSeed
    \/ SquashLogsRepetition
    \/ SquashLogsFlushRepeat
    \/ SquashLogsPushOne
    \/ SquashLogsPanic
    \/ SquashLogsFinal
    \/ CallValidate
    \/ NewWindow
    \/ Push
    \/ PushPanic
    \/ CallValid
    \/ CallAllHistoryKind
    \/ Return

Spec == Init /\ [][Next]_vars

\* one step of a running call of SquashLogs
SquashStep ==
    \/ SquashLogsRepetition
    \/ SquashLogsFlushRepeat
    \/ SquashLogsPushOne
    \/ SquashLogsPanic
    \/ SquashLogsFinal

\* SquashLogs is sequential code: once called, it keeps executing its next
\* statement; the client is free never to call again
FairSpec == Spec /\ WF_vars(SquashStep)

----------------------------------------------------------------------------
(* Vocabulary of the properties.                                           *)

Range(s) == {s[j] : j \in DOMAIN s}

KeyOf(r) == <<r.Status, r.Info>>

\* a call of SquashLogs has returned
Returned == op = "SquashLogs" /\ pc = "done"

\* the text a synthetic record is expected to carry, written independently
\* of Sprintf
ExpectedInfo(k, n) ==
    "last " \o ToString(k) \o " statuses repeated " \o ToString(n) \o " times"

\* the synthetic record expected for n repetitions of a cycle of k, made by
\* a call whose time.Now() returned t
ExpectedMarker(k, n, t) ==
    [Status |-> "idle", Info |-> ExpectedInfo(k, n), Data |-> {},
     Since |-> [ref |-> "now", time |-> t], Kind |-> "", Version |-> "",
     Life |-> "", Err |-> "nil"]

RECURSIVE EverRepeats(_)
\* the walk that stands at frame fr (cycleSize >= 1) finds a repetition at
\* some later comparison
EverRepeats(fr) ==
    IF fr.pc # "loop" THEN FALSE
    ELSE StepKind(fr) = "repetition" \/ EverRepeats(Step(fr))

\* the call that has returned walked the history and found no repetition
NoRepetitionDetected ==
    \/ Len(statuses) <= cycleSize
    \/ ~EverRepeats(Seed(EntryFrame(statuses, cycleSize), now))

----------------------------------------------------------------------------
(* C1 *)

\* C1 (as claimed): when a call SquashLogs(k), k >= 1, has detected no
\* repetition, the returned sequence equals the input history exactly.
C1_OrderPreservation ==
    (Returned /\ cycleSize >= 1 /\ NoRepetitionDetected) => ret = statuses

----------------------------------------------------------------------------
(* C2 *)

\* C2 (as claimed): when the walk stopped at index i because fewer than
\* cycleSize records remained (i < len, i + cycleSize > len), the records
\* statuses[i], ..., statuses[len-1] are the end of the returned sequence, in
\* their original order.
C2_TrailingPartialCycle ==
    (/\ Returned
     /\ cycleSize >= 1
     /\ Len(statuses) > cycleSize
     /\ i < Len(statuses)
     /\ i + cycleSize > Len(statuses))
    => /\ Len(ret) >= Len(statuses) - i
       /\ SubSeq(ret, Len(ret) - (Len(statuses) - i) + 1, Len(ret))
            = SubSeq(statuses, i + 1, Len(statuses))

----------------------------------------------------------------------------
(* C3 *)

\* history h is m >= 2 consecutive chunks of length k, each equal to the
\* first chunk position by position on Status and Info
PureRepetition(h, k, m) ==
    /\ m >= 2
    /\ Len(h) = m * k
    /\ \A p \in (k + 1)..Len(h) : KeyOf(h[p]) = KeyOf(h[((p - 1) % k) + 1])

\* C3: for k >= 1 and a history of m >= 2 chunks of length k that all equal
\* the first chunk on (Status, Info), SquashLogs(k) returns the first k
\* records followed by one synthetic record whose Info is "last k statuses
\* repeated (m-1) times", and nothing else.
C3_PureRepetitionSquashed ==
    \A m \in 2..Len(statuses) :
        (Returned /\ cycleSize >= 1 /\ PureRepetition(statuses, cycleSize, m))
        => /\ Len(ret) = cycleSize + 1
           /\ SubSeq(ret, 1, cycleSize) = SubSeq(statuses, 1, cycleSize)
           /\ ret[cycleSize + 1] \notin Range(statuses)
           /\ ret[cycleSize + 1].Info = ExpectedInfo(cycleSize, m - 1)

\* a cycle of 2 seen 3 times has been squashed
C3_Witness ==
    /\ Returned
    /\ cycleSize = 2
    /\ PureRepetition(statuses, 2, 3)
    /\ KeyOf(statuses[1]) # KeyOf(statuses[2])
    /\ Len(ret) = 3

----------------------------------------------------------------------------
(* C4 *)

\* C4: a call of SquashLogs(k) on a history of at most k records (the empty
\* history and len = k included) has returned the history itself, unchanged,
\* and has not got as far as the walk: no buffer was seeded and nothing was
\* put in result.
C4_ShortCircuitIdentity ==
    (op = "SquashLogs" /\ Len(statuses) <= cycleSize)
    => /\ pc = "done"
       /\ ret = statuses
       /\ buffer = <<>>
       /\ result = <<>>

\* the boundary len = cycleSize on a history that is not empty
C4_Witness ==
    /\ Returned
    /\ Len(statuses) = cycleSize
    /\ cycleSize = 3
    /\ ret = statuses

----------------------------------------------------------------------------
(* C5 *)

\* how many of the three selectors of filter flt are set
SelectorsSet(flt) ==
    Cardinality({x \in {"size", "date", "delta"} :
        \/ x = "size" /\ flt.Size >= 1
        \/ x = "date" /\ flt.FromDate.ref # "nil"
        \/ x = "delta" /\ flt.Delta.ref # "nil"})

\* C5: Validate returns no error if and only if exactly one of Size > 0,
\* FromDate != nil, Delta != nil holds, for every filter (Size = 0 and a
\* negative Size count as not set).
C5_ValidateExactlyOne ==
    (op = "Validate" /\ pc = "done")
    => ((err.notValid = FALSE) <=> (SelectorsSet(f) = 1))

\* a filter with a negative Size and a date alone is accepted
C5_Witness ==
    /\ op = "Validate" /\ pc = "done"
    /\ f.Size < 0
    /\ f.FromDate.ref # "nil"
    /\ f.Delta.ref = "nil"
    /\ err.notValid = FALSE

----------------------------------------------------------------------------
(* C6 *)

----------------------------------------------------------------------------
(* C7 *)

\* history h is one of the scenario: 8 records, records 3-4 equal records
\* 1-2 on (Status, Info), and no other chunk of 2 repeats the chunk before
IsScenario(h) ==
    /\ Len(h) = 8
    /\ KeyOf(h[3]) = KeyOf(h[1]) /\ KeyOf(h[4]) = KeyOf(h[2])
    /\ <<KeyOf(h[5]), KeyOf(h[6])>> # <<KeyOf(h[3]), KeyOf(h[4])>>
    /\ <<KeyOf(h[7]), KeyOf(h[8])>> # <<KeyOf(h[5]), KeyOf(h[6])>>

\* C7 (as claimed): on a history of the scenario SquashLogs(2) returns
\* [rec1, rec2, rec3, rec4, marker("last 2 statuses repeated 1 times"),
\* rec7, rec8].
C7_ScenarioAsClaimed ==
    (Returned /\ cycleSize = 2 /\ IsScenario(statuses))
    => ret = <<statuses[1], statuses[2], statuses[3], statuses[4],
               ExpectedMarker(2, 1, now), statuses[7], statuses[8]>>

\* C7 (amended): on a history of the scenario the sequence SquashLogs(2)
\* returns begins with [rec1, rec2, marker("last 2 statuses repeated 1
\* times"), rec5, rec6, rec7]; rec3 and rec4, the repetition the marker
\* stands for, are not in it, and nothing but rec8 may follow.
C7_ScenarioOutput ==
    (Returned /\ cycleSize = 2 /\ IsScenario(statuses))
    => /\ Len(ret) >= 6
       /\ SubSeq(ret, 1, 6) = <<statuses[1], statuses[2],
                                ExpectedMarker(2, 1, now),
                                statuses[5], statuses[6], statuses[7]>>
       /\ statuses[3] \notin Range(ret)
       /\ statuses[4] \notin Range(ret)
       /\ SubSeq(ret, 7, Len(ret)) \in {<<>>, <<statuses[8]>>}

\* a call on a history of the scenario has returned
C7_Witness ==
    /\ Returned
    /\ cycleSize = 2
    /\ IsScenario(statuses)
    /\ ExpectedMarker(2, 1, now) \in Range(ret)

----------------------------------------------------------------------------
(* C8 *)

\* C8: whatever a step of the walk adds to the output, the records already
\* there stay; an added record that is no record of the input is the
\* synthetic record: Status Idle, Info "last {cycleSize} statuses repeated
\* {repeat} times" with repeat the counter at that moment, Since the time
\* taken at the start of the call, all other fields zero; and a step that
\* ends pending repetitions (by a flush or by the return) adds it.
C8_MarkerContent ==
    [][(op = "SquashLogs" /\ pc = "loop")
       => LET added == SubSeq(result', Len(result) + 1, Len(result'))
          IN  /\ Len(result') >= Len(result)
              /\ SubSeq(result', 1, Len(result)) = result
              /\ \A j \in DOMAIN added :
                    added[j] \notin Range(statuses)
                    => added[j] = ExpectedMarker(cycleSize, repeat, now)
              /\ (repeat > 0 /\ (repeat' = 0 \/ pc' = "done"))
                 => ExpectedMarker(cycleSize, repeat, now) \in Range(added)
              /\ pc' = "done" => ret' = result']_vars

\* a call has returned two synthetic records with different counts
C8_Witness ==
    /\ Returned
    /\ cycleSize = 1
    /\ ExpectedMarker(1, 2, now) \in Range(ret)
    /\ ExpectedMarker(1, 1, now) \in Range(ret)

----------------------------------------------------------------------------
(* C9 *)

\* other values for the fields SquashLogs is said not to look at: one field
\* changed at a time, and all of them at once
Alterations ==
    {[Since |-> TRUE, Data |-> FALSE, Kind |-> FALSE, Life |-> FALSE, Err |-> FALSE],
     [Since |-> FALSE, Data |-> TRUE, Kind |-> FALSE, Life |-> FALSE, Err |-> FALSE],
     [Since |-> FALSE, Data |-> FALSE, Kind |-> TRUE, Life |-> FALSE, Err |-> FALSE],
     [Since |-> FALSE, Data |-> FALSE, Kind |-> FALSE, Life |-> TRUE, Err |-> FALSE],
     [Since |-> FALSE, Data |-> FALSE, Kind |-> FALSE, Life |-> FALSE, Err |-> TRUE],
     [Since |-> TRUE, Data |-> TRUE, Kind |-> TRUE, Life |-> TRUE, Err |-> TRUE]}

\* record r with the fields that alteration a names changed
Altered(r, a) ==
    [r EXCEPT !.Since = IF a.Since THEN NilPtr ELSE @,
              !.Data  = IF a.Data THEN {} ELSE @,
              !.Kind  = IF a.Kind THEN "workload" ELSE @,
              !.Life  = IF a.Life THEN "dying" ELSE @,
              !.Err   = IF a.Err THEN "not found" ELSE @]

\* the histories got from h by altering one record, or every record
Variants(h) ==
    {[h EXCEPT ![p] = Altered(h[p], a)] : p \in DOMAIN h, a \in Alterations}
    \cup {[p \in DOMAIN h |-> Altered(h[p], a)] : a \in Alterations}

\* what a returned sequence shows of the repetitions found: where the
\* synthetic records stand and what they report, and the Status and Info of
\* the others
Shape(out, t) ==
    [j \in DOMAIN out |->
        <<out[j].Since = AddrOfNow(t), out[j].Status, out[j].Info>>]

\* C9: while a chunk of cycleSize >= 1 records lies ahead, it is counted as a
\* repetition exactly when each of its records has the Status and the Info
\* of the record at the same position of the buffer; and a call returns
\* synthetic records at the same places with the same counts, among records
\* of the same Status and Info, when the Since, Data, Kind, Life or Err of
\* input records are changed.
C9_NarrowEquality ==
    /\ (/\ op = "SquashLogs" /\ pc = "loop" /\ cycleSize >= 1
        /\ i + cycleSize <= Len(statuses))
       => ((ENABLED SquashLogsRepetition)
           <=> \A j \in 1..cycleSize :
                  /\ statuses[i + j].Status = buffer[j].Status
                  /\ statuses[i + j].Info = buffer[j].Info)
    /\ (Returned /\ cycleSize >= 1)
       => \A h2 \in Variants(statuses) :
             Shape(SquashLogs(h2, cycleSize, now).ret, now) = Shape(ret, now)

\* a call has squashed a repetition whose records differ in Since
C9_Witness ==
    /\ Returned
    /\ cycleSize = 2
    /\ Len(statuses) = 6
    /\ ExpectedMarker(2, 1, now) \in Range(ret)
    /\ statuses[3].Since # statuses[1].Since
    /\ Len(ret) = 5

----------------------------------------------------------------------------
(* C10 *)

\* C10: no step of a call of SquashLogs changes the history of the caller:
\* from the entry to the return every element of statuses keeps its value
\* and its position.
C10_InputUnchanged ==
    [][(op = "SquashLogs" /\ pc = "loop") => statuses' = statuses]_vars

\* a call that pushed records through its buffer and flushed a repetition
\* has returned
C10_Witness ==
    /\ Returned
    /\ cycleSize = 2
    /\ Len(statuses) = 6
    /\ i = 5
    /\ statuses = HistoryOf([p \in 1..6 |-> KeyOf(statuses[p])])
    /\ buffer # SubSeq(statuses, 1, 2)

----------------------------------------------------------------------------
(* C11 *)

\* the selectors of filter flt that are set
SelectorsOf(flt) ==
    {x \in {"size", "date", "delta"} :
        \/ x = "size" /\ flt.Size >= 1
        \/ x = "date" /\ flt.FromDate.ref # "nil"
        \/ x = "delta" /\ flt.Delta.ref # "nil"}

\* C11: with no selector set Validate fails with the not-valid error made
\* from "missing filter parameters"; with exactly two set it fails with the
\* not-valid error made from the text that names that pair.
C11_ValidateErrors ==
    (op = "Validate" /\ pc = "done")
    => /\ SelectorsOf(f) = {}
          => err = [notValid |-> TRUE, msg |-> "missing filter parameters"]
       /\ SelectorsOf(f) = {"size", "date"}
          => err = [notValid |-> TRUE, msg |-> "Size and Date together"]
       /\ SelectorsOf(f) = {"size", "delta"}
          => err = [notValid |-> TRUE, msg |-> "Size and Delta together"]
       /\ SelectorsOf(f) = {"date", "delta"}
          => err = [notValid |-> TRUE, msg |-> "Date and Delta together"]

\* a filter with a date and a delta and no size has been refused
C11_Witness ==
    /\ op = "Validate" /\ pc = "done"
    /\ SelectorsOf(f) = {"date", "delta"}
    /\ f.Size < 0
    /\ err.msg = "Date and Delta together"

\* C12: Valid returns true exactly for the seven kinds unit, juju-unit,
\* workload, machine, juju-machine, container and juju-container, and false
\* for every other string, the empty string and "bogus" included.
C12_ValidExactlySeven ==
    (op = "Valid" /\ pc = "done")
    => (valid <=> kind \in {"unit", "juju-unit", "workload", "machine",
                            "juju-machine", "container", "juju-container"})

C12_Witness ==
    /\ op = "Valid" /\ pc = "done"
    /\ kind = "juju-container"
    /\ valid

\* C13: the keys of the map AllHistoryKind returns are exactly the strings
\* Valid accepts, there are seven of them, and no description is empty.
C13_AllHistoryKindKeys ==
    (op = "AllHistoryKind" /\ pc = "done")
    => /\ DOMAIN allKinds = {k \in KindInputs \cup DOMAIN allKinds : Valid(k)}
       /\ Cardinality(DOMAIN allKinds) = 7
       /\ \A k \in DOMAIN allKinds : allKinds[k] # ""

C13_Witness ==
    /\ op = "AllHistoryKind" /\ pc = "done"
    /\ KindContainer \in DOMAIN allKinds
    /\ Cardinality(DOMAIN allKinds) = 7


\* every loop iteration with cycleSize >= 1 that stays in the loop moves the
\* walk index forward, by 1 or by cycleSize, and never past the input
C14_IndexIncreases ==
    [][(op = "SquashLogs" /\ pc = "loop" /\ pc' = "loop" /\ cycleSize >= 1)
       => /\ i' \in {i + 1, i + cycleSize}
          /\ i' > i
          /\ i' <= Len(statuses)]_vars

\* C14: for every history and every cycleSize >= 1 a running call of
\* SquashLogs terminates and returns a result, and until then every loop
\* iteration strictly increases the walk index, by 1 or by cycleSize.
C14_Termination ==
    /\ C14_IndexIncreases
    /\ (op = "SquashLogs" /\ pc = "loop" /\ cycleSize >= 1)
          ~> (op = "SquashLogs" /\ pc = "done" /\ cycleSize >= 1)

C14_Witness ==
    /\ Returned
    /\ cycleSize = 2
    /\ Len(statuses) = MaxLen
    /\ i = Len(statuses)
    /\ Len(ret) >= 4

\* C15: a call of SquashLogs with cycleSize < 1 on a non-empty history fails
\* at once: it has either failed already or its first loop iteration is the
\* failure; it never repeats, never returns and never runs on.
C15_FailFast ==
    (op = "SquashLogs" /\ cycleSize < 1 /\ Len(statuses) > 0)
    => \/ pc = "panic"
       \/ /\ pc = "loop"
          /\ repeat = 0
          /\ StepKind(Frame) = "panic"

\* C16: push on an empty window fails: the call ends in the failure, returns
\* no record and leaves the window empty, so the new record is not in it.
C16_PushOnEmptyFails ==
    [][(op = "push" /\ pc = "ready" /\ window = <<>> /\ op' = "push")
       => /\ pc' = "panic"
          /\ window' = <<>>
          /\ old' = old
          /\ new' \notin Range(window')]_vars

C16_Witness ==
    /\ op = "push" /\ pc = "panic"
    /\ window = <<>>
    /\ new \in WindowRecords
    /\ old = ZeroStatus

\* record r with the compaction timestamp of a marker blanked
Unstamp(r) ==
    IF r.Since.ref = "now" THEN [r EXCEPT !.Since = AddrOfNow(0)] ELSE r

UnstampAll(s) == [j \in 1..Len(s) |-> Unstamp(s[j])]

\* a call of h.SquashLogs(k) at time t that starts on whatever the frame fr
\* of an earlier call holds
CallOn(fr, h, k, t) ==
    LET e == [fr EXCEPT !.statuses = h, !.cycleSize = k, !.pc = "entry"]
    IN  IF IsShort(e) THEN ShortCircuit(e) ELSE RunFrom(Seed(e, t))

MarkerLookalike ==
    /\ Len(statuses) = 3
    /\ cycleSize = 1
    /\ KeyOf(statuses[1]) = KeyOf(statuses[2])
    /\ KeyOf(statuses[3]) = <<Idle, ExpectedInfo(1, 1)>>
    /\ KeyOf(statuses[1]) # KeyOf(statuses[3])

\* C18: SquashLogs is not idempotent: there are a history and a cycleSize
\* k >= 1 whose squashed output changes when squashed again with k.  Such a
\* history is [a, a, x], k = 1, x carrying the text of the synthetic record:
\* the output is [a, marker, x], and the second squash takes x for a
\* repetition of the marker.
C18_NotIdempotent ==
    (Returned /\ MarkerLookalike)
    => /\ ret = <<statuses[1], ExpectedMarker(1, 1, now), statuses[3]>>
       /\ \A t \in NowValues :
             /\ SquashLogs(ret, cycleSize, t).pc = "done"
             /\ UnstampAll(SquashLogs(ret, cycleSize, t).ret)
                # UnstampAll(ret)

C18_Witness ==
    /\ Returned /\ MarkerLookalike
    /\ KeyOf(statuses[1]) = <<Idle, "">>
    /\ SquashLogs(ret, cycleSize, now).ret
       = <<ret[1], ret[2], ExpectedMarker(1, 1, now)>>

\* the call stands at a comparison whose chunk does not match the buffer
Mismatch ==
    /\ op = "SquashLogs" /\ pc = "loop"
    /\ cycleSize >= 1
    /\ Walking(Frame)
    /\ ~Matches(Subset(Frame), buffer)

\* C19 as claimed: every comparison is made at an offset that is a multiple
\* of cycleSize, and a chunk that does not match while the repeat counter is
\* 0 is pushed through the buffer whole, each evicted record emitted, before
\* the next comparison.
C19_ChunkedWalk ==
    [][(op = "SquashLogs" /\ pc = "loop" /\ cycleSize >= 1 /\ Walking(Frame))
       => /\ i % cycleSize = 0
          /\ (Mismatch /\ repeat = 0)
             => /\ i' = i + cycleSize
                /\ result' = result \o buffer
                /\ buffer' = Subset(Frame)]_vars

\* C19: the buffer is seeded with the first cycleSize records and the first
\* comparison is made at offset cycleSize; when the chunk at offset i does
\* not match and the repeat counter is 0, only its first record statuses[i]
\* is pushed through the buffer, the one evicted record is emitted, and the
\* next comparison is made at offset i + 1.
C19_SlidingWalk ==
    [][/\ (op' = "SquashLogs" /\ pc # "loop" /\ pc' = "loop")
          => /\ buffer' = SubSeq(statuses', 1, cycleSize')
             /\ i' = cycleSize'
             /\ result' = <<>>
       /\ (Mismatch /\ repeat = 0)
          => /\ pc' = "loop"
             /\ i' = i + 1
             /\ result' = Append(result, buffer[1])
             /\ buffer' = Tail(buffer) \o <<statuses[i + 1]>>
             /\ repeat' = 0]_vars

\* a comparison at an offset that is no multiple of cycleSize, after one
\* record of a chunk that did not match was pushed
C19_Witness ==
    /\ op = "SquashLogs" /\ pc = "loop"
    /\ cycleSize = 2
    /\ i = 3
    /\ Walking(Frame)
    /\ repeat = 0
    /\ result = <<statuses[1]>>
    /\ buffer = <<statuses[2], statuses[3]>>

\* C20: when the chunk does not match the buffer and the repeat counter is
\* N > 0, the output receives the cycleSize records the buffer held, in
\* order, and then exactly one synthetic record reporting N; the repeat
\* counter becomes 0, the buffer holds exactly the chunk that did not match,
\* and the walk advances by cycleSize.
C20_FlushOnMismatch ==
    [][(Mismatch /\ repeat > 0)
       => /\ pc' = "loop"
          /\ Len(buffer) = cycleSize
          /\ result' = result \o buffer
                       \o <<ExpectedMarker(cycleSize, repeat, now)>>
          /\ repeat' = 0
          /\ buffer' = SubSeq(statuses, i + 1, i + cycleSize)
          /\ i' = i + cycleSize]_vars

\* the state a flush of one repetition of a cycle of 2 leaves
C20_Witness ==
    /\ op = "SquashLogs" /\ pc = "loop"
    /\ cycleSize = 2
    /\ i = 6
    /\ repeat = 0
    /\ result = <<statuses[1], statuses[2], ExpectedMarker(2, 1, now)>>
    /\ buffer = <<statuses[5], statuses[6]>>
    /\ KeyOf(statuses[5]) # KeyOf(statuses[1])

\* C21: when the walk ends, the cycleSize records of the buffer are appended
\* to the output in buffer order; then, if and only if the repeat counter is
\* > 0, exactly one synthetic record with that count follows them, before
\* any leftover record; whatever follows is a record the walk did not read.
C21_FlushAtTermination ==
    [][(op = "SquashLogs" /\ pc = "loop" /\ cycleSize >= 1 /\ ~Walking(Frame))
       => LET head == result \o buffer
                      \o (IF repeat > 0
                          THEN <<ExpectedMarker(cycleSize, repeat, now)>>
                          ELSE <<>>)
          IN  /\ pc' = "done"
              /\ Len(buffer) = cycleSize
              /\ Len(ret') >= Len(head)
              /\ SubSeq(ret', 1, Len(head)) = head
              /\ \A j \in (Len(head) + 1)..Len(ret') :
                    \E p \in (i + 1)..Len(statuses) : ret'[j] = statuses[p]]_vars

\* a call that ended with one pending repetition of a cycle of 2
C21_Witness ==
    /\ Returned
    /\ cycleSize = 2
    /\ repeat = 1
    /\ i = 4
    /\ ret = <<statuses[1], statuses[2], ExpectedMarker(2, 1, now)>>

\* record r is a record of the input (its Since is the caller's), not a
\* synthetic record made by the call
FromInput(r) == r.Since.ref = "h"

\* the records of s that are records of the input, in the order of s
WithoutMarkers(s) == SelectSeq(s, FromInput)

\* C22: for cycleSize >= 1 the output with its synthetic records removed is
\* a subsequence of the input: every such record is the input record of its
\* position, and the positions strictly increase (same relative order, no
\* record twice).
C22_OutputIsSubsequence ==
    (Returned /\ cycleSize >= 1)
    => LET nm == WithoutMarkers(ret)
       IN  /\ \A j \in 1..Len(nm) :
                 /\ nm[j].Since.time \in 1..Len(statuses)
                 /\ nm[j] = statuses[nm[j].Since.time]
           /\ \A j, l \in 1..Len(nm) :
                 j < l => nm[j].Since.time < nm[l].Since.time
           /\ \A j \in 1..Len(ret) :
                 ~FromInput(ret[j]) => ret[j].Since = AddrOfNow(now)

\* a call that dropped a repeated chunk between records it kept
C22_Witness ==
    /\ Returned
    /\ cycleSize = 2
    /\ Len(statuses) = 6
    /\ ret = <<statuses[1], statuses[2], ExpectedMarker(2, 1, now),
               statuses[5], statuses[6]>>

\* the sequences of records pushed one after the other: up to MaxWindow + 1
\* records, so that a window of any length is replaced whole, alternating
\* between two records and starting with either
PushSequences ==
    {[j \in 1..n |-> InputStatus(<<Idle, "">>, MaxWindow + ((j + b) % 2))] :
        n \in 0..(MaxWindow + 1), b \in {0, 1}}

RECURSIVE PushAll(_, _, _)
\* window h after the calls h.push(rs[1]), h.push(rs[2]), ..., and the
\* records they returned, appended to ev in the order of the calls
PushAll(h, ev, rs) ==
    IF rs = <<>> THEN [h |-> h, evicted |-> ev]
    ELSE LET p == push(h, Head(rs))
         IN  PushAll(p.h, Append(ev, p.old), Tail(rs))

\* a circular buffer over the same window: the slots are never moved, head
\* is the slot of the oldest record
Circular(h) == [slots |-> h, head |-> 1]

\* one push on the circular buffer: the record at head is returned, the new
\* record takes its slot, head moves on
CircularPush(cb, n) ==
    [old |-> cb.slots[cb.head],
     cb  |-> [slots |-> [cb.slots EXCEPT ![cb.head] = n],
              head  |-> (cb.head % Len(cb.slots)) + 1]]

\* the window a circular buffer stands for: its slots read from head
CircularView(cb) ==
    [j \in 1..Len(cb.slots) |->
        cb.slots[((cb.head + j - 2) % Len(cb.slots)) + 1]]

RECURSIVE CircularPushAll(_, _, _)
CircularPushAll(cb, ev, rs) ==
    IF rs = <<>> THEN [cb |-> cb, evicted |-> ev]
    ELSE LET p == CircularPush(cb, Head(rs))
         IN  CircularPushAll(p.cb, Append(ev, p.old), Tail(rs))

MarkerCount(r) ==
    CHOOSE n \in 0..Len(statuses) : r.Info = ExpectedInfo(cycleSize, n)

RECURSIVE SumCounts(_)
\* the sum of the counts the synthetic records of s report
SumCounts(s) ==
    IF s = <<>> THEN 0
    ELSE (IF FromInput(Head(s)) THEN 0 ELSE MarkerCount(Head(s)))
         + SumCounts(Tail(s))

\* C25: for cycleSize k >= 1 the number of input records in the output plus
\* k times the sum of the counts of the synthetic records equals the length
\* of the input.
C25_RecordConservation ==
    (Returned /\ cycleSize >= 1)
    => Len(WithoutMarkers(ret)) + cycleSize * SumCounts(ret) = Len(statuses)

\* C26: for cycleSize >= 1 the output of SquashLogs is never longer than
\* its input.
C26_NeverGrows ==
    (Returned /\ cycleSize >= 1) => Len(ret) <= Len(statuses)

\* a call whose output is as long as its input although it holds a
\* synthetic record: one repetition of a cycle of 1 saves one record and
\* costs one
C26_Witness ==
    /\ Returned
    /\ cycleSize = 1
    /\ Len(statuses) = 4
    /\ Len(ret) = 4
    /\ SumCounts(ret) = 2

\* C27: at the start of every loop iteration (cycleSize k >= 1, walk index
\* i) the buffer holds exactly k records, each equal on (Status, Info) to
\* the record k places before it in statuses[i-k .. i-1]; when the repeat
\* counter is 0 the buffer is exactly statuses[i-k .. i-1].
C27_BufferInvariant ==
    (op = "SquashLogs" /\ pc = "loop" /\ cycleSize >= 1)
    => /\ Len(buffer) = cycleSize
       /\ i >= cycleSize /\ i <= Len(statuses)
       /\ \A j \in 1..cycleSize :
             KeyOf(buffer[j]) = KeyOf(statuses[i - cycleSize + j])
       /\ repeat = 0 => buffer = SubSeq(statuses, i - cycleSize + 1, i)

\* a walk with a pending repetition: the buffer still holds the first
\* occurrence, which is not the chunk just read
C27_Witness ==
    /\ op = "SquashLogs" /\ pc = "loop"
    /\ cycleSize = 2
    /\ repeat = 1
    /\ i = 4
    /\ buffer = <<statuses[1], statuses[2]>>
    /\ buffer # <<statuses[3], statuses[4]>>

RECURSIVE Dropped(_)
\* the positions (from 1) of the records of the chunks that the walk from
\* frame fr counts as repetitions (cycleSize >= 1)
Dropped(fr) ==
    IF fr.pc # "loop" THEN {}
    ELSE (IF StepKind(fr) = "repetition"
          THEN (fr.i + 1)..(fr.i + fr.cycleSize)
          ELSE {})
         \cup Dropped(Step(fr))

RECURSIVE FirstOccurrences(_)
\* the positions of the records the buffer holds when the walk from frame
\* fr starts a run of repetitions: the first occurrence of the cycle
FirstOccurrences(fr) ==
    IF fr.pc # "loop" THEN {}
    ELSE (IF StepKind(fr) = "repetition" /\ fr.repeat = 0
          THEN (fr.i - fr.cycleSize + 1)..fr.i
          ELSE {})
         \cup FirstOccurrences(Step(fr))

\* C28: when repeated cycles are squashed, the records of the first
\* occurrence of the cycle are in the output as they are in the input
\* (same Since, Data, Kind), and no record of a later matching chunk is.
C28_FirstOccurrenceSurvives ==
    (Returned /\ cycleSize >= 1 /\ Len(statuses) > cycleSize)
    => LET e == Seed(EntryFrame(statuses, cycleSize), now)
       IN  /\ \A p \in FirstOccurrences(e) : statuses[p] \in Range(ret)
           /\ \A p \in Dropped(e) : statuses[p] \notin Range(ret)

\* two repetitions of a cycle of 2: records 1-2 are kept, 3-6 dropped
C28_Witness ==
    /\ Returned
    /\ cycleSize = 2
    /\ Len(statuses) = 6
    /\ Dropped(Seed(EntryFrame(statuses, cycleSize), now)) = 3..6
    /\ ret = <<statuses[1], statuses[2], ExpectedMarker(2, 2, now)>>

\* C29: the repeat counter N is the number of consecutive chunks before the
\* walk index that matched the buffer, the buffer being the cycle before
\* them; a synthetic record is emitted only with N >= 1, reports exactly N,
\* and directly follows, in the output, the cycleSize records of the cycle
\* it summarises.
C29_MarkerCountExact ==
    [][(op = "SquashLogs" /\ pc = "loop" /\ cycleSize >= 1)
       => LET k     == cycleSize
              out   == IF pc' = "done" THEN ret' ELSE result'
              added == SubSeq(out, Len(result) + 1, Len(out))
          IN  /\ repeat >= 0
              /\ i - (repeat + 1) * k >= 0
              /\ buffer = SubSeq(statuses, i - (repeat + 1) * k + 1,
                                 i - repeat * k)
              /\ \A m \in 1..repeat :
                    Matches(SubSeq(statuses, i - m * k + 1, i - (m - 1) * k),
                            buffer)
              /\ \A j \in DOMAIN added :
                    ~FromInput(added[j])
                    => /\ repeat >= 1
                       /\ added[j] = ExpectedMarker(k, repeat, now)
                       /\ j > k
                       /\ SubSeq(added, j - k, j - 1) = buffer]_vars

\* a call that reported one repetition of the first cycle and two of the
\* second
C29_Witness ==
    /\ Returned
    /\ cycleSize = 1
    /\ Len(statuses) = 5
    /\ ret = <<statuses[1], ExpectedMarker(1, 1, now),
               statuses[3], ExpectedMarker(1, 2, now)>>

\* the conflicts in the order Validate tests them: the two selectors and the
\* text reported
Conflicts ==
    <<[pair |-> {"size", "date"}, msg |-> "Size and Date together"],
      [pair |-> {"size", "delta"}, msg |-> "Size and Delta together"],
      [pair |-> {"date", "delta"}, msg |-> "Date and Delta together"]>>

\* C30: with all three selectors set Validate fails with "Size and Date
\* together"; in general the conflict reported is the first, in the order
\* Size+Date, Size+Delta, Date+Delta, whose two selectors are both set, and
\* the two selectors a message names are always set.
C30_ConflictPrecedence ==
    (op = "Validate" /\ pc = "done")
    => /\ SelectorsOf(f) = {"size", "date", "delta"}
          => err = [notValid |-> TRUE, msg |-> "Size and Date together"]
       /\ \A c \in 1..3 :
             (/\ Conflicts[c].pair \subseteq SelectorsOf(f)
              /\ \A b \in 1..(c - 1) :
                    ~(Conflicts[b].pair \subseteq SelectorsOf(f)))
             => err = [notValid |-> TRUE, msg |-> Conflicts[c].msg]
       /\ \A c \in 1..3 :
             err.msg = Conflicts[c].msg
             => Conflicts[c].pair \subseteq SelectorsOf(f)

C30_Witness ==
    /\ op = "Validate" /\ pc = "done"
    /\ SelectorsOf(f) = {"size", "date", "delta"}
    /\ err.notValid
    /\ err.msg = "Size and Date together"

============================================================================
